---- MODULE Spec2Model ----
(***************************************************************************)
(* wafb (main.go): expansion of address specifications, the baseline       *)
(* request, and the concurrent probes joined by a sync.WaitGroup.          *)
(*                                                                         *)
(* Text is a sequence of one-character strings.  A uint32 is the record    *)
(* [hi, lo] of its two 16-bit halves, so that the 32-bit arithmetic of the *)
(* program (wrap-around of i++ included) stays inside TLC's integers.      *)
(***************************************************************************)
EXTENDS Integers, Sequences, FiniteSets, TLC

\* ------------------------------------------------------------ bounds
\* CIDR inputs have prefix lengths 32 - HostBits .. 32.
HostBits == 3

\* ------------------------------------------------------------ text
Digits == <<"0", "1", "2", "3", "4", "5", "6", "7", "8", "9">>

IsDigit(c) == \E d \in 1..10 : Digits[d] = c

DigitVal(c) == (CHOOSE d \in 1..10 : Digits[d] = c) - 1

AllDigits(s) == \A k \in 1..Len(s) : IsDigit(s[k])

RECURSIVE DecVal(_)
\* The value of a non-empty string of decimal digits.
DecVal(s) ==
  IF Len(s) = 0 THEN 0
  ELSE 10 * DecVal(SubSeq(s, 1, Len(s) - 1)) + DigitVal(s[Len(s)])

RECURSIVE Dec(_)
\* The decimal digits of n, as the byte formatting of net.IP.String writes them.
Dec(n) ==
  IF n < 10 THEN <<Digits[n + 1]>>
  ELSE Dec(n \div 10) \o <<Digits[(n % 10) + 1]>>

\* strings.Contains(s, c) for a one-character c.
Contains(s, c) == \E k \in 1..Len(s) : s[k] = c

\* strings.Index(s, c) + 1 for a one-character c; 0 when c does not occur.
IndexOf(s, c) ==
  IF Contains(s, c) THEN CHOOSE k \in 1..Len(s) : s[k] = c /\ \A j \in 1..(k - 1) : s[j] # c
  ELSE 0

RECURSIVE Split(_, _)
\* strings.Split(s, c): every field between occurrences of c, empty ones kept.
Split(s, c) ==
  IF IndexOf(s, c) = 0 THEN <<s>>
  ELSE <<SubSeq(s, 1, IndexOf(s, c) - 1)>> \o Split(SubSeq(s, IndexOf(s, c) + 1, Len(s)), c)

RECURSIVE TrimLeft(_)
TrimLeft(s) ==
  IF Len(s) > 0 /\ s[1] = " " THEN TrimLeft(Tail(s)) ELSE s

RECURSIVE TrimRight(_)
TrimRight(s) ==
  IF Len(s) > 0 /\ s[Len(s)] = " " THEN TrimRight(SubSeq(s, 1, Len(s) - 1)) ELSE s

\* strings.TrimSpace(s): leading and trailing white space removed.
TrimSpace(s) == TrimRight(TrimLeft(s))

\* bufio.Scanner with ScanLines: the fields between newlines, without the empty
\* field that follows a final newline (or an empty input).
ScanLines(content) ==
  LET f == Split(content, "\n")
  IN  IF f[Len(f)] = <<>> THEN SubSeq(f, 1, Len(f) - 1) ELSE f

\* ------------------------------------------------------------ uint32
Pow16 == 65536

\* 0xffffffff
MaxUint32 == [hi |-> Pow16 - 1, lo |-> Pow16 - 1]

\* binary.BigEndian.Uint32(b) for a 4-byte b.
Uint32(b) == [hi |-> b[1] * 256 + b[2], lo |-> b[3] * 256 + b[4]]

\* binary.BigEndian.PutUint32(ip, v): the four bytes of v.
PutUint32(v) == <<v.hi \div 256, v.hi % 256, v.lo \div 256, v.lo % 256>>

\* i++ on a uint32: wraps from 0xffffffff to 0.
Inc32(v) ==
  IF v.lo < Pow16 - 1 THEN [hi |-> v.hi, lo |-> v.lo + 1]
  ELSE [hi |-> (v.hi + 1) % Pow16, lo |-> 0]

\* a < b and a <= b on uint32.
Lt32(a, b) == a.hi < b.hi \/ (a.hi = b.hi /\ a.lo < b.lo)

Le32(a, b) == Lt32(a, b) \/ a = b

RECURSIVE AndN(_, _, _)
AndN(a, b, n) ==
  IF n = 0 THEN 0 ELSE (a % 2) * (b % 2) + 2 * AndN(a \div 2, b \div 2, n - 1)

RECURSIVE OrN(_, _, _)
OrN(a, b, n) ==
  IF n = 0 THEN 0
  ELSE (IF a % 2 = 1 \/ b % 2 = 1 THEN 1 ELSE 0) + 2 * OrN(a \div 2, b \div 2, n - 1)

RECURSIVE XorN(_, _, _)
XorN(a, b, n) ==
  IF n = 0 THEN 0
  ELSE (IF a % 2 # b % 2 THEN 1 ELSE 0) + 2 * XorN(a \div 2, b \div 2, n - 1)

And32(a, b) == [hi |-> AndN(a.hi, b.hi, 16), lo |-> AndN(a.lo, b.lo, 16)]

Or32(a, b) == [hi |-> OrN(a.hi, b.hi, 16), lo |-> OrN(a.lo, b.lo, 16)]

Xor32(a, b) == [hi |-> XorN(a.hi, b.hi, 16), lo |-> XorN(a.lo, b.lo, 16)]

\* ------------------------------------------------------------ package net
\* net.IP.String of a 4-byte address: dotted decimal.
IPString(b) == Dec(b[1]) \o <<".">> \o Dec(b[2]) \o <<".">> \o Dec(b[3]) \o <<".">> \o Dec(b[4])

\* One decimal field of a dotted quad: digits, no leading zero (Go 1.17 and
\* later), at most 255.
OctetOK(f) ==
  /\ Len(f) \in 1..3
  /\ AllDigits(f)
  /\ (Len(f) > 1 => f[1] # "0")
  /\ DecVal(f) <= 255

\* The IPv4 literal parser of package net: the four bytes, or <<>> (nil).
ParseIPv4(s) ==
  LET f == Split(s, ".")
  IN  IF Len(f) = 4 /\ \A k \in 1..4 : OctetOK(f[k])
      THEN <<DecVal(f[1]), DecVal(f[2]), DecVal(f[3]), DecVal(f[4])>>
      ELSE <<>>

\* The 16-byte IPv4-in-IPv6 form net.ParseIP returns for an IPv4 literal.
V4InV6(b) == <<0, 0, 0, 0, 0, 0, 0, 0, 0, 0, 255, 255>> \o b

\* net.ParseIP(s): no white space is trimmed; nil (<<>>) when s is no literal.
ParseIP(s) == IF ParseIPv4(s) = <<>> THEN <<>> ELSE V4InV6(ParseIPv4(s))

\* net.IP.To4: the 4-byte form, or nil (<<>>); nil.To4() is nil.
To4(ip) ==
  IF Len(ip) = 4 THEN ip
  ELSE IF /\ Len(ip) = 16
          /\ \A k \in 1..10 : ip[k] = 0
          /\ ip[11] = 255
          /\ ip[12] = 255
       THEN SubSeq(ip, 13, 16)
       ELSE <<>>

RECURSIVE Pow2(_)
Pow2(n) == IF n = 0 THEN 1 ELSE 2 * Pow2(n - 1)

\* net.CIDRMask(n, 32) as a uint32: n leading one bits.
CIDRMask(n) ==
  IF n >= 16 THEN [hi |-> Pow16 - 1, lo |-> Pow16 - Pow2(32 - n)]
  ELSE [hi |-> Pow16 - Pow2(16 - n), lo |-> 0]

\* net.ParseCIDR(s) for IPv4: [ok, IP, Mask] with IP the masked 4-byte network
\* address and Mask the 4-byte mask of the returned *IPNet.
ParseCIDR(s) ==
  LET k    == IndexOf(s, "/")
      addr == SubSeq(s, 1, k - 1)
      bits == SubSeq(s, k + 1, Len(s))
      ip   == ParseIPv4(addr)
      good == /\ k > 0
              /\ ip # <<>>
              /\ Len(bits) >= 1
              /\ AllDigits(bits)
              /\ DecVal(bits) <= 32
  IN  IF good
      THEN [ok   |-> TRUE,
            IP   |-> PutUint32(And32(Uint32(ip), CIDRMask(DecVal(bits)))),
            Mask |-> PutUint32(CIDRMask(DecVal(bits)))]
      ELSE [ok |-> FALSE, IP |-> <<>>, Mask |-> <<>>]

\* ------------------------------------------------------------ inputs
\* Cap on the number of addresses one expansion loop collects in the model: a
\* loop that has not ended by then runs on in the program.
MaxOut == Pow2(HostBits)

\* IPv4 literal a.b.c.d as text.
A(a, b, c, d) == IPString(<<a, b, c, d>>)

\* The target URL after url.Parse: virtual host, path and query.
Target == [host |-> <<"w", "a", "f">>, path |-> "/content", query |-> "q=1"]

NoURL == [host |-> <<>>, path |-> "", query |-> ""]

\* Values of the -s flag: empty, one code, a code and a field Atoi rejects.
StatusFlags == {<<>>, Dec(404), Dec(404) \o <<",", "x">>}

\* Address sources of complete runs: few addresses each.
RunContents ==
  { A(10, 0, 0, 1) \o <<"\n">> \o A(10, 0, 0, 1),
    A(10, 0, 0, 1) \o <<"-">> \o A(10, 0, 0, 2) \o <<"\n">>,
    A(10, 0, 0, 4) \o <<"/", "3", "1">> \o <<"\n">> \o A(10, 0, 0, 9),
    A(10, 0, 0, 0) \o <<"/", "3", "3">> \o <<"\n">> \o <<"x", " ", "y">>,
    A(10, 0, 0, 1) \o <<"-">>,
    <<>> }

\* a.b.c.d/n as text.
CIDRText(ip, n) == IPString(ip) \o <<"/">> \o Dec(n)

\* start-end as text, sep being the hyphen and the white space around it.
BlockText(start, sep, stop) == IPString(start) \o sep \o IPString(stop)

CIDRAddrs == {<<10, 0, 0, 0>>, <<10, 0, 0, 5>>, <<192, 168, 1, 255>>, <<255, 255, 255, 255>>}

Prefixes == (32 - HostBits)..32

\* Blocks <<start, end>>: in order, a single address, across a byte and across
\* the 16-bit carry, ending at 255.255.255.255, and out of order.
Blocks ==
  { <<(<<10, 0, 0, 1>>), (<<10, 0, 0, 3>>)>>,
    <<(<<10, 0, 0, 4>>), (<<10, 0, 0, 4>>)>>,
    <<(<<10, 0, 0, 255>>), (<<10, 0, 1, 1>>)>>,
    <<(<<10, 0, 255, 255>>), (<<10, 1, 0, 0>>)>>,
    <<(<<255, 255, 255, 254>>), (<<255, 255, 255, 255>>)>>,
    <<(<<10, 0, 0, 3>>), (<<10, 0, 0, 1>>)>> }

\* The hyphen alone, and the hyphen with white space around it.
Hyphen == <<"-">>

SpacedHyphens == {<<" ", "-", " ">>, <<" ", "-", " ", " ", " ">>}

\* Lines that are neither a CIDR nor a block the parsers accept.
MalformedCIDRLines ==
  { CIDRText(<<10, 0, 0, 0>>, 33),
    <<"1", "0", ".", "0", ".", "0", "/", "3", "0">>,
    A(10, 0, 0, 0) \o <<"/">>,
    A(10, 0, 0, 0) \o <<"/", "x">>,
    A(10, 0, 0, 0) \o <<"/", "3", "0", " ">>,
    A(10, 0, 0, 1) \o <<"-">> \o A(10, 0, 0, 2) \o <<"/", "3", "0">> }

MalformedBlockLines ==
  { A(10, 0, 0, 1) \o <<"-">>,
    <<"-">> \o A(10, 0, 0, 1),
    <<"-">>,
    A(10, 0, 0, 1) \o <<"-">> \o A(10, 0, 0, 2) \o <<"-">> \o A(10, 0, 0, 3),
    A(10, 0, 0, 1) \o <<"-">> \o <<"1", "0", ".", "0", ".", "0", ".", "x">>,
    A(10, 0, 0, 1) \o <<"-">> \o <<"1", "0", ".", "0", ".", "0", ".", "2", "5", "6">>,
    <<"a", "-", "b">> }

SingleLines == {A(10, 0, 0, 44), <<"x">>, <<>>}

ExpandLines ==
  {CIDRText(ip, n) : ip \in CIDRAddrs, n \in Prefixes}
  \cup {BlockText(b[1], Hyphen, b[2]) : b \in Blocks}
  \cup {BlockText(b[1], sep, b[2]) : b \in Blocks, sep \in SpacedHyphens}
  \cup {<<" ">> \o BlockText(b[1], Hyphen, b[2]) \o <<" ">> : b \in Blocks}
  \cup MalformedCIDRLines
  \cup MalformedBlockLines
  \cup SingleLines

\* Address sources of the expansion runs: one line, with and without a final
\* newline, and one line followed by another.
ExpandContents ==
  ExpandLines
  \cup {l \o <<"\n">> : l \in ExpandLines}
  \cup {l \o <<"\n">> \o A(10, 0, 0, 44) : l \in ExpandLines}

\* Status codes a server answers with, and response bodies.
Statuses == {101, 200, 299, 300, 404, 500}

Bodies == {"B1", "B2"}

\* What one call of Client.Do and the read of the body end in.
Outcomes ==
  {[kind |-> "transport", status |-> 0, readOk |-> FALSE, body |-> ""],
   [kind |-> "timeout", status |-> 0, readOk |-> FALSE, body |-> ""]}
  \cup {[kind |-> "response", status |-> s, readOk |-> FALSE, body |-> ""] : s \in Statuses}
  \cup {[kind |-> "response", status |-> s, readOk |-> TRUE, body |-> b] :
          s \in Statuses, b \in Bodies}

NoOutcome == [kind |-> "none", status |-> 0, readOk |-> FALSE, body |-> ""]

\* main.go:269: Client.Do refuses a URL without a host ("no Host in request
\* URL"); any other request ends in any outcome.
OutcomesFor(url) ==
  IF url.host = <<>> THEN {o \in Outcomes : o.kind = "transport"} ELSE Outcomes

\* ------------------------------------------------------------ state
VARIABLES
  input,             \* command line, address source and target of this run
  pc,                \* position of main
  Client,            \* the global http.Client: transport and timeout
  ValidStatusCodes,  \* the global allowlist
  fileLines,         \* lines handed to parseAddresses
  lineIdx,           \* index of the line being parsed
  addresses,         \* the address list main collects
  yielded,           \* per parsed line, the parsedRange parseAddresses returned
  i,                 \* loop variable of the expansion loops
  end,               \* loop limit of the expansion loops
  parsedRange,       \* addresses collected by the running expansion loop
  u,                 \* the parsed target URL of main
  vhost,             \* main's vhost
  baseline,          \* what doRequest returned for the original request
  originalBody,      \* body of the original request
  wg,                \* WaitGroup counter
  units,             \* the performTest goroutines, in dispatch order
  requests,          \* requests handed to Client.Do
  stdout             \* lines printed, in order

vars == <<input, pc, Client, ValidStatusCodes, fileLines, lineIdx, addresses, yielded,
          i, end, parsedRange, u, vhost, baseline, originalBody, wg, units, requests,
          stdout>>

setupVars == <<Client, ValidStatusCodes>>

readVars == <<fileLines, lineIdx, addresses, yielded, i, end, parsedRange>>

probeVars == <<u, vhost, baseline, originalBody, wg, units, requests, stdout>>

Zero32 == [hi |-> 0, lo |-> 0]

Terminated == {"done", "fatal", "panic"}

\* ------------------------------------------------------------ main: set-up
\* main.go:55-59: the positional target argument.
ParseArgs ==
  /\ pc = "args"
  /\ pc' = IF input.nargs # 1 THEN "fatal" ELSE "proxy"
  /\ UNCHANGED <<input, setupVars, readVars, probeVars>>

\* main.go:62-75: the transport, through the proxy when -proxy is given.
SetupProxy ==
  /\ pc = "proxy"
  /\ IF input.proxy = "bad"
     THEN pc' = "fatal" /\ UNCHANGED Client
     ELSE /\ pc' = "codes"
          /\ Client' = [Client EXCEPT !.transport =
                          IF input.proxy = "none" THEN "direct" ELSE "proxy"]
  /\ UNCHANGED <<input, ValidStatusCodes, readVars, probeVars>>

\* strconv.Atoi succeeds on a field (of the unsigned texts modelled here).
AtoiOK(f) == Len(f) >= 1 /\ AllDigits(f)

\* main.go:78-83: every field of -s that Atoi accepts joins the allowlist.
ParseStatusCodes ==
  /\ pc = "codes"
  /\ LET fields == Split(input.statusCodes, ",")
     IN  ValidStatusCodes' = ValidStatusCodes \cup
           {DecVal(fields[k]) : k \in {j \in 1..Len(fields) : AtoiOK(fields[j])}}
  /\ pc' = "timeout"
  /\ UNCHANGED <<input, Client, readVars, probeVars>>

\* main.go:86-90: the -t duration.
SetTimeout ==
  /\ pc = "timeout"
  /\ IF input.timeoutOk
     THEN pc' = "read" /\ Client' = [Client EXCEPT !.timeout = "set"]
     ELSE pc' = "fatal" /\ UNCHANGED Client
  /\ UNCHANGED <<input, ValidStatusCodes, readVars, probeVars>>

\* ------------------------------------------------------------ main: addresses
\* main.go:99-109 with 141-145 and 158-159: the lines of the -l file
\* (strings.Split on "\n") or of standard input (bufio.Scanner).
ReadAddresses ==
  /\ pc = "read"
  /\ IF input.addressList /\ ~input.readable
     THEN pc' = "fatal" /\ UNCHANGED fileLines
     ELSE /\ pc' = "lines"
          /\ fileLines' = IF input.addressList THEN Split(input.content, "\n")
                          ELSE ScanLines(input.content)
  /\ UNCHANGED <<input, setupVars, lineIdx, addresses, yielded, i, end, parsedRange,
                 probeVars>>

\* The line parseAddresses is called with.
Line == fileLines[lineIdx]

\* parseAddresses returns r: main.go:148-149 (160-161) append it.
ReturnRange(r) ==
  /\ addresses' = addresses \o r
  /\ yielded' = Append(yielded, r)
  /\ lineIdx' = lineIdx + 1
  /\ parsedRange' = <<>>
  /\ pc' = "lines"

\* main.go:237-238 with 184-191: a line holding "/" goes to parseCIDRNetwork; a
\* ParseCIDR error returns nil, is logged (249) and the line yields nothing.
ParseCIDRLine ==
  /\ pc = "lines"
  /\ lineIdx <= Len(fileLines)
  /\ Contains(Line, "/")
  /\ LET net == ParseCIDR(Line)
     IN  IF ~net.ok
         THEN ReturnRange(<<>>) /\ UNCHANGED <<i, end>>
         ELSE LET mask  == Uint32(net.Mask)
                  start == Uint32(net.IP)
              IN  /\ i' = start
                  /\ end' = Or32(And32(start, mask), Xor32(mask, MaxUint32))
                  /\ parsedRange' = <<>>
                  /\ pc' = "cidrLoop"
                  /\ UNCHANGED <<lineIdx, addresses, yielded>>
  /\ UNCHANGED <<input, setupVars, fileLines, probeVars>>

\* The loop condition, were the broadcast address included.
CIDRLoopCondInclusive == Le32(i, end)

\* main.go:193: the loop condition i < end.
CIDRLoopCond == Lt32(i, end)

\* main.go:193-197: one iteration of for i := start; i < end; i++.
CIDRLoopStep ==
  /\ pc = "cidrLoop"
  /\ CIDRLoopCond
  /\ Len(parsedRange) < MaxOut
  /\ parsedRange' = Append(parsedRange, IPString(PutUint32(i)))
  /\ i' = Inc32(i)
  /\ UNCHANGED <<input, pc, setupVars, fileLines, lineIdx, addresses, yielded, end,
                 probeVars>>

\* main.go:193, 199: the loop ends and parseCIDRNetwork returns.
CIDRLoopExit ==
  /\ pc = "cidrLoop"
  /\ ~CIDRLoopCond
  /\ ReturnRange(parsedRange)
  /\ UNCHANGED <<input, setupVars, fileLines, i, end, probeVars>>

\* main.go:205-206: the edges of a block.
Edges(line) == Split(TrimSpace(line), "-")

\* main.go:207-215: parseNetworkBlock panics when there are not two edges
\* (ErrorLogger.Panicf) or when an edge is no IP literal: ParseIP returns nil,
\* To4 of nil is nil and Uint32 of an empty slice panics.
BlockPanics(line) ==
  \/ Len(Edges(line)) # 2
  \/ To4(ParseIP(Edges(line)[1])) = <<>>
  \/ To4(ParseIP(Edges(line)[2])) = <<>>

\* main.go:239-240 with 204-218: a line holding "-" (and no "/") goes to
\* parseNetworkBlock.
ParseBlockLine ==
  /\ pc = "lines"
  /\ lineIdx <= Len(fileLines)
  /\ ~Contains(Line, "/")
  /\ Contains(Line, "-")
  /\ IF BlockPanics(Line)
     THEN pc' = "panic" /\ UNCHANGED <<i, end, parsedRange>>
     ELSE /\ i' = Uint32(To4(ParseIP(Edges(Line)[1])))
          /\ end' = Uint32(To4(ParseIP(Edges(Line)[2])))
          /\ parsedRange' = <<>>
          /\ pc' = "blockLoop"
  /\ UNCHANGED <<input, setupVars, fileLines, lineIdx, addresses, yielded, probeVars>>

\* main.go:219-223: one iteration of for i := start; i <= end; i++.
BlockLoopStep ==
  /\ pc = "blockLoop"
  /\ Le32(i, end)
  /\ Len(parsedRange) < MaxOut
  /\ parsedRange' = Append(parsedRange, IPString(PutUint32(i)))
  /\ i' = Inc32(i)
  /\ UNCHANGED <<input, pc, setupVars, fileLines, lineIdx, addresses, yielded, end,
                 probeVars>>

\* main.go:219, 225: the loop ends and parseNetworkBlock returns.
BlockLoopExit ==
  /\ pc = "blockLoop"
  /\ ~Le32(i, end)
  /\ ReturnRange(parsedRange)
  /\ UNCHANGED <<input, setupVars, fileLines, i, end, probeVars>>

\* main.go:244-246: any other line, the empty one included, is one address.
ParseSingleLine ==
  /\ pc = "lines"
  /\ lineIdx <= Len(fileLines)
  /\ ~Contains(Line, "/")
  /\ ~Contains(Line, "-")
  /\ ReturnRange(<<Line>>)
  /\ UNCHANGED <<input, setupVars, fileLines, i, end, probeVars>>

\* main.go:152 (163): every line is parsed; the list goes back to main.
EndOfLines ==
  /\ pc = "lines"
  /\ lineIdx > Len(fileLines)
  /\ pc' = "url"
  /\ UNCHANGED <<input, setupVars, readVars, probeVars>>

\* ------------------------------------------------------------ doRequest
\* main.go:258-261: http.NewRequest parses the URL text again; a host with
\* white space in it does not parse, and no request is made.
NewRequestOK(url) == ~Contains(url.host, " ")

\* main.go:258-269: the request doRequest hands to Client.Do: it connects to the
\* URL's host and carries vhost as its Host header.
Request(by, url, vh) ==
  [by |-> by, dest |-> url.host, host |-> vh, path |-> url.path, query |-> url.query]

\* main.go:274: the status test of doRequest.
StatusRejected(statusCode, codes) == statusCode >= 300 /\ statusCode \notin codes

\* main.go:269-283: what doRequest returns when Client.Do and the read of the
\* body end in outcome o: [err, body].
DoRequest(o, codes) ==
  IF o.kind # "response" THEN [err |-> TRUE, body |-> ""]
  ELSE IF StatusRejected(o.status, codes) THEN [err |-> TRUE, body |-> ""]
  ELSE IF ~o.readOk THEN [err |-> TRUE, body |-> ""]
  ELSE [err |-> FALSE, body |-> o.body]

\* ------------------------------------------------------------ main: baseline
\* main.go:112-116: the target URL and its virtual host.
ParseURL ==
  /\ pc = "url"
  /\ IF input.urlOk
     THEN pc' = "baseline" /\ u' = Target /\ vhost' = Target.host
     ELSE pc' = "fatal" /\ UNCHANGED <<u, vhost>>
  /\ UNCHANGED <<input, setupVars, readVars, baseline, originalBody, wg, units,
                 requests, stdout>>

\* main.go:119 with 258-269: the original request is sent.
BaselineSend ==
  /\ pc = "baseline"
  /\ IF NewRequestOK(u)
     THEN pc' = "baselineWait" /\ requests' = requests \cup {Request(0, u, vhost)}
     ELSE pc' = "fatal" /\ UNCHANGED requests
  /\ UNCHANGED <<input, setupVars, readVars, u, vhost, baseline, originalBody, wg,
                 units, stdout>>

\* The original request returns, were its error not checked.
BaselineReturnIgnoreErr ==
  /\ pc = "baselineWait"
  /\ \E o \in OutcomesFor(u) :
       /\ baseline' = DoRequest(o, ValidStatusCodes)
       /\ pc' = "dispatch"
       /\ originalBody' = DoRequest(o, ValidStatusCodes).body
  /\ UNCHANGED <<input, setupVars, readVars, u, vhost, wg, units, requests, stdout>>

\* main.go:119-122 with 269-283: the original request returns; an error is fatal.
BaselineReturn ==
  /\ pc = "baselineWait"
  /\ \E o \in OutcomesFor(u) :
       /\ baseline' = DoRequest(o, ValidStatusCodes)
       /\ IF DoRequest(o, ValidStatusCodes).err
          THEN pc' = "fatal" /\ UNCHANGED originalBody
          ELSE pc' = "dispatch" /\ originalBody' = DoRequest(o, ValidStatusCodes).body
  /\ UNCHANGED <<input, setupVars, readVars, u, vhost, wg, units, requests, stdout>>

\* ------------------------------------------------------------ main: probes
\* The goroutine main.go:131 starts: performTest with its own copies of
\* originalBody and of the URL value *u.
NewUnit(address) ==
  [address |-> address, u |-> u, originalBody |-> originalBody, vhost |-> <<>>,
   st |-> "ready", outcome |-> NoOutcome, err |-> FALSE]

\* main.go:129-132: one iteration of the range over addresses, with no wg.Add.
DispatchNoAdd ==
  /\ pc = "dispatch"
  /\ Len(units) < Len(addresses)
  /\ units' = Append(units, NewUnit(addresses[Len(units) + 1]))
  /\ UNCHANGED <<input, pc, setupVars, readVars, u, vhost, baseline, originalBody, wg,
                 requests, stdout>>

\* main.go:129-132: one iteration of the range over addresses.
Dispatch ==
  /\ pc = "dispatch"
  /\ Len(units) < Len(addresses)
  /\ wg' = wg + 1
  /\ units' = Append(units, NewUnit(addresses[Len(units) + 1]))
  /\ UNCHANGED <<input, pc, setupVars, readVars, u, vhost, baseline, originalBody,
                 requests, stdout>>

\* main.go:129, 135: the range is over; main reaches wg.Wait.
DispatchEnd ==
  /\ pc = "dispatch"
  /\ Len(units) = Len(addresses)
  /\ pc' = "wait"
  /\ UNCHANGED <<input, setupVars, readVars, probeVars>>

\* main.go:135-136: wg.Wait returns when the counter is zero, and main ends.
Wait ==
  /\ pc = "wait"
  /\ wg = 0
  /\ pc' = "done"
  /\ UNCHANGED <<input, setupVars, readVars, probeVars>>

\* performTest substituting the address in the URL main holds, were u passed
\* by reference.
PerformTestSendShared(k) ==
  /\ pc \notin Terminated
  /\ units[k].st = "ready"
  /\ u' = [u EXCEPT !.host = units[k].address]
  /\ IF NewRequestOK(u')
     THEN /\ units' = [units EXCEPT ![k] = [@ EXCEPT !.vhost = u.host, !.st = "inflight"]]
          /\ requests' = requests \cup {Request(k, u', u.host)}
          /\ UNCHANGED wg
     ELSE /\ units' = [units EXCEPT ![k] = [@ EXCEPT !.vhost = u.host, !.st = "done",
                                                       !.err = TRUE]]
          /\ wg' = wg - 1
          /\ UNCHANGED requests
  /\ UNCHANGED <<input, pc, setupVars, readVars, vhost, baseline, originalBody, stdout>>

\* main.go:167-171 with 258-269: performTest keeps the virtual host, puts its
\* address in its copy of the URL and sends the request; when NewRequest fails
\* doRequest returns the error, nothing is printed and wg.Done runs (168).
PerformTestSend(k) ==
  /\ pc \notin Terminated
  /\ units[k].st = "ready"
  /\ LET vh == units[k].u.host
         nu == [units[k].u EXCEPT !.host = units[k].address]
     IN  IF NewRequestOK(nu)
         THEN /\ units' = [units EXCEPT ![k] = [@ EXCEPT !.vhost = vh, !.u = nu,
                                                           !.st = "inflight"]]
              /\ requests' = requests \cup {Request(k, nu, vh)}
              /\ UNCHANGED wg
         ELSE /\ units' = [units EXCEPT ![k] = [@ EXCEPT !.vhost = vh, !.u = nu,
                                                           !.st = "done", !.err = TRUE]]
              /\ wg' = wg - 1
              /\ UNCHANGED requests
  /\ UNCHANGED <<input, pc, setupVars, readVars, u, vhost, baseline, originalBody,
                 stdout>>

\* main.go:176-177: the line printed for unit k: its address and the similarity,
\* a function of the two bodies compared.
ResultLine(k, checkedBody) ==
  [unit |-> k, address |-> units[k].address, checkedBody |-> checkedBody,
   originalBody |-> units[k].originalBody]

\* main.go:168, 171-178 with 269-283: the request of unit k returns; without an
\* error the result line is printed; wg.Done runs either way.
PerformTestReturn(k) ==
  /\ pc \notin Terminated
  /\ units[k].st = "inflight"
  /\ \E o \in OutcomesFor(units[k].u) :
       LET r == DoRequest(o, ValidStatusCodes)
       IN  /\ units' = [units EXCEPT ![k] = [@ EXCEPT !.st = "done", !.outcome = o,
                                                        !.err = r.err]]
           /\ stdout' = IF r.err THEN stdout ELSE Append(stdout, ResultLine(k, r.body))
  /\ wg' = wg - 1
  /\ UNCHANGED <<input, pc, setupVars, readVars, u, vhost, baseline, originalBody,
                 requests>>

\* ------------------------------------------------------------ specifications
AllInputs ==
  [nargs : {0, 1, 2}, proxy : {"none", "good", "bad"}, statusCodes : StatusFlags,
   timeoutOk : BOOLEAN, addressList : BOOLEAN, readable : BOOLEAN,
   content : RunContents, urlOk : BOOLEAN]

\* The runs explored: every command line, the proxy varied for one address
\* source only (the transport has no part in what follows).
Inputs == {x \in AllInputs : x.proxy = "none" \/ x.content = <<>>}

InitState ==
  /\ fileLines = <<>>
  /\ lineIdx = 1
  /\ addresses = <<>>
  /\ yielded = <<>>
  /\ i = Zero32
  /\ end = Zero32
  /\ parsedRange = <<>>
  /\ u = NoURL
  /\ vhost = <<>>
  /\ baseline = [err |-> FALSE, body |-> ""]
  /\ originalBody = ""
  /\ wg = 0
  /\ units = <<>>
  /\ requests = {}
  /\ stdout = <<>>

Init ==
  /\ input \in Inputs
  /\ pc = "args"
  /\ Client = [transport |-> "unset", timeout |-> "unset"]
  /\ ValidStatusCodes = {}
  /\ InitState

\* The state main is in when it starts to read the addresses.
InitExpand ==
  /\ input \in [nargs : {1}, proxy : {"none"}, statusCodes : {<<>>}, timeoutOk : {TRUE},
                 addressList : BOOLEAN, readable : {TRUE}, content : ExpandContents,
                 urlOk : {TRUE}]
  /\ pc = "read"
  /\ Client = [transport |-> "direct", timeout |-> "set"]
  /\ ValidStatusCodes = {}
  /\ InitState

Setup == ParseArgs \/ SetupProxy \/ ParseStatusCodes \/ SetTimeout

Expand ==
  \/ ReadAddresses
  \/ ParseCIDRLine
  \/ CIDRLoopStep
  \/ CIDRLoopExit
  \/ ParseBlockLine
  \/ BlockLoopStep
  \/ BlockLoopExit
  \/ ParseSingleLine
  \/ EndOfLines

Main == ParseURL \/ BaselineSend \/ BaselineReturn \/ Dispatch \/ DispatchEnd \/ Wait

Units == \E k \in 1..Len(units) : PerformTestSend(k) \/ PerformTestReturn(k)

Next == Setup \/ Expand \/ Main \/ Units

Spec == Init /\ [][Next]_vars

\* The reading of the addresses alone, over many address sources.
SpecExpand == InitExpand /\ [][Expand]_vars

\* The Go scheduler runs main and every goroutine that can run, and every call
\* of Client.Do returns (Client.Timeout bounds it).
FairSpec == Spec /\ WF_vars(Main) /\ WF_vars(Units)

\* ------------------------------------------------------------ claims
\* b + n on the four bytes of an address, carrying from byte to byte.
AddBytes(b, n) ==
  LET t4 == b[4] + n
      t3 == b[3] + (t4 \div 256)
      t2 == b[2] + (t3 \div 256)
      t1 == b[1] + (t2 \div 256)
  IN  <<t1 % 256, t2 % 256, t3 % 256, t4 % 256>>

\* start <= stop as 32-bit integers, on the bytes.
BytesLe(s, e) ==
  \/ s = e
  \/ \E k \in 1..4 : s[k] < e[k] /\ \A j \in 1..(k - 1) : s[j] = e[j]

\* stop - start + 1 (for blocks far shorter than 2^31).
BlockCount(s, e) ==
  ((((e[1] - s[1]) * 256 + (e[2] - s[2])) * 256 + (e[3] - s[3])) * 256 + (e[4] - s[4])) + 1

\* The addresses start .. stop, both included, as text.
BlockRange(s, e) == [j \in 1..BlockCount(s, e) |-> IPString(AddBytes(s, j - 1))]

\* The network address of ip/n for 24 <= n <= 32: the last byte rounded down
\* to a multiple of 2^(32-n).
NetworkOf(ip, n) == <<ip[1], ip[2], ip[3], (ip[4] \div Pow2(32 - n)) * Pow2(32 - n)>>

\* The network address and the 2^(32-n) - 2 addresses after it, as text.
CIDRRange(ip, n) == [j \in 1..(Pow2(32 - n) - 1) |-> IPString(AddBytes(NetworkOf(ip, n), j - 1))]

\* Line k has been parsed and its addresses returned.
Returned(k) == k <= Len(yielded)

\* The run stopped with a panic while parsing line k.
PanickedAt(k) == pc = "panic" /\ lineIdx = k

\* A field of a block that is an IPv4 literal, white space around it aside.
FieldOK(f) == ParseIPv4(TrimSpace(f)) # <<>>

\* A malformed block or CIDR specification.
Malformed(line) ==
  \/ /\ Contains(line, "/")
     /\ ~ParseCIDR(line).ok
  \/ /\ ~Contains(line, "/")
     /\ Contains(line, "-")
     /\ \/ Len(Split(line, "-")) # 2
        \/ ~FieldOK(Split(line, "-")[1])
        \/ ~FieldOK(Split(line, "-")[2])

\* C1: a malformed CIDR or block line yields zero addresses and never stops
\* the run: the lines after it are parsed.
C1_MalformedLineSkipped ==
  \A k \in 1..Len(fileLines) :
    Malformed(fileLines[k]) =>
      /\ ~PanickedAt(k)
      /\ (Returned(k) => yielded[k] = <<>>)

\* C2 as stated: a valid CIDR a.b.c.d/n yields 2^(32-n) - 1 addresses, the
\* network address first, then every address below the broadcast address.
C2_CIDRFirstIsNetwork ==
  \A k \in 1..Len(yielded) : \A ip \in CIDRAddrs, n \in Prefixes :
    fileLines[k] = CIDRText(ip, n) =>
      /\ yielded[k] = CIDRRange(ip, n)
      /\ Len(yielded[k]) >= 1
      /\ yielded[k][1] = IPString(NetworkOf(ip, n))

\* C2, amended: a valid CIDR a.b.c.d/n yields exactly the 2^(32-n) - 1
\* addresses from the network address up to the one below the broadcast
\* address, in increasing order; for n < 32 the first is the network address,
\* and for n = 32 there is none.
C2_CIDRExpansion ==
  \A k \in 1..Len(yielded) : \A ip \in CIDRAddrs, n \in Prefixes :
    fileLines[k] = CIDRText(ip, n) =>
      /\ yielded[k] = CIDRRange(ip, n)
      /\ Len(yielded[k]) = Pow2(32 - n) - 1
      /\ (n < 32 => yielded[k][1] = IPString(NetworkOf(ip, n)))
      /\ (n = 32 => yielded[k] = <<>>)

\* The unaligned 10.0.0.5/30 has returned its three addresses.
C2_Witness ==
  /\ Returned(1)
  /\ fileLines[1] = CIDRText(<<10, 0, 0, 5>>, 30)
  /\ yielded[1] = <<A(10, 0, 0, 4), A(10, 0, 0, 5), A(10, 0, 0, 6)>>
  /\ pc = "url"

\* C3: a block start-end with start <= end yields exactly the end-start+1
\* addresses from start to end, and the loop collects no more than those.
C3_BlockInclusive ==
  \A k \in 1..Len(fileLines) : \A b \in Blocks :
    (fileLines[k] = BlockText(b[1], Hyphen, b[2]) /\ BytesLe(b[1], b[2])) =>
      /\ (pc = "blockLoop" /\ lineIdx = k => Len(parsedRange) <= BlockCount(b[1], b[2]))
      /\ (Returned(k) => yielded[k] = BlockRange(b[1], b[2]))

\* C4: a block written with white space around the hyphen is accepted and
\* yields the addresses of the block written without it.
C4_SpacedBlockAccepted ==
  \A k \in 1..Len(fileLines) : \A b \in Blocks, sep \in SpacedHyphens :
    (fileLines[k] = BlockText(b[1], sep, b[2]) /\ BytesLe(b[1], b[2])) =>
      /\ ~PanickedAt(k)
      /\ (Returned(k) => yielded[k] = BlockRange(b[1], b[2]))

\* A received status is accepted: in the 2xx class or in the allowlist.
Accepted(status) == status \in 200..299 \/ status \in ValidStatusCodes

\* C5: doRequest returns the body of a response exactly when its status is in
\* the 2xx class or in the allowlist; any other received status is an error.
C5_StatusClassification ==
  \A k \in 1..Len(units) :
    (units[k].st = "done" /\ units[k].outcome.kind = "response") =>
      /\ (Accepted(units[k].outcome.status) /\ units[k].outcome.readOk => ~units[k].err)
      /\ (~Accepted(units[k].outcome.status) => units[k].err)

\* The probe ended as Success: a response in time, its status accepted, its
\* body read.
Success(o) == o.kind = "response" /\ Accepted(o.status) /\ o.readOk

\* A result line of unit k is in the output.
Printed(k) == \E j \in 1..Len(stdout) : stdout[j].unit = k

\* C6: a result line is printed for an address occurrence exactly when its
\* probe ended as Success, and a failed probe stops neither main nor a sibling.
C6_PrintedIffSuccess ==
  /\ \A k \in 1..Len(units) :
       /\ (units[k].st = "done" => (Printed(k) <=> Success(units[k].outcome)))
       /\ (units[k].st # "done" => ~Printed(k))
  /\ (units # <<>> => pc \in {"dispatch", "wait", "done"})

\* Every set-up step of main succeeded.
SetupOK ==
  /\ input.nargs = 1
  /\ input.proxy # "bad"
  /\ input.timeoutOk
  /\ (input.addressList => input.readable)
  /\ input.urlOk
  /\ Client.transport # "unset"
  /\ Client.timeout = "set"
  /\ u = Target

\* The original request was made and returned a body.
BaselineOK ==
  /\ Request(0, Target, Target.host) \in requests
  /\ pc \notin {"baseline", "baselineWait"}
  /\ ~baseline.err
  /\ originalBody = baseline.body

\* C7: no request is made unless every set-up step succeeded, no probe is
\* dispatched unless the original request succeeded too, and a run that ended
\* on a fatal condition has dispatched none.
C7_FatalBeforeProbing ==
  /\ (requests # {} => SetupOK)
  /\ (units # <<>> => SetupOK /\ BaselineOK)
  /\ (pc = "fatal" => units = <<>>)
  /\ (pc = "fatal" /\ requests # {} => baseline.err)

\* A probe has been sent, and another run has ended on a failed baseline.
C7_Witness ==
  \/ \E k \in 1..Len(units) : units[k].st = "inflight"
  \/ (pc = "fatal" /\ baseline.err)

\* The units that have not finished.
Unfinished == {k \in 1..Len(units) : units[k].st # "done"}

JoinInv ==
  /\ Len(units) <= Len(addresses)
  /\ \A k \in 1..Len(units) : units[k].address = addresses[k]
  /\ (pc \in {"wait", "done"} => Len(units) = Len(addresses))
  /\ (pc = "done" => Unfinished = {})
  /\ wg = Cardinality(Unfinished)
  /\ \A k \in 1..Len(units) : Cardinality({r \in requests : r.by = k}) <= 1
  /\ \A k \in 1..Len(units) :
       Cardinality({j \in 1..Len(stdout) : stdout[j].unit = k}) <= 1

\* C8: one unit per address occurrence and one attempt per unit; main passes
\* wg.Wait only when every unit has finished; and once main dispatches, the
\* run completes.
C8_JoinBarrier == [](JoinInv) /\ ((pc = "dispatch") ~> (pc = "done"))

\* A run over a duplicated address has completed, both units finished.
C8_Witness ==
  /\ pc = "done"
  /\ Len(units) = 2
  /\ units[1].address = units[2].address
  /\ units[1].err
  /\ ~units[2].err

\* Every request of a unit goes to the unit's address with the target's
\* virtual host, path and query.
RequestsIsolated ==
  /\ \A r \in requests :
       r.by > 0 =>
         /\ r.dest = addresses[r.by]
         /\ r.host = Target.host
         /\ r.path = Target.path
         /\ r.query = Target.query
  /\ \A k \in 1..Len(units) :
       /\ units[k].originalBody = originalBody
       /\ (units[k].st = "ready" => units[k].u = u)
       /\ (units[k].st # "ready" => units[k].u = [u EXCEPT !.host = units[k].address])

\* C10: once a unit is dispatched nothing writes the baseline body, the target
\* URL, the client or the allowlist, and every unit's request goes to its own
\* address with the target's virtual host, path and query.
C10_Isolation ==
  /\ [][Len(units) > 0 => UNCHANGED <<originalBody, u, vhost, Client, ValidStatusCodes>>]_vars
  /\ [](RequestsIsolated)

\* Two units with different addresses both have their requests in flight.
C10_Witness ==
  /\ Len(units) = 2
  /\ units[1].st = "inflight"
  /\ units[2].st = "inflight"
  /\ units[1].address # units[2].address

\* C9: an empty line yields no address, and no probe is dispatched for one.
C9_EmptyLineYieldsNothing ==
  /\ \A k \in 1..Len(yielded) : fileLines[k] = <<>> => yielded[k] = <<>>
  /\ \A k \in 1..Len(units) : units[k].address # <<>>

====
